---- MODULE Spec2Model ----
(***************************************************************************)
(* Tool-calling chat loop with SQLite memory (chatbot_sqlite.py) and the   *)
(* in-memory variant (chatbot.py).                                         *)
(*                                                                         *)
(* Texts are sequences of one-character strings, so that strip() and       *)
(* slicing are computed.  The database file is the record `store`; each    *)
(* CLI process is a member of `procs` with its own program counter and     *)
(* locals.  A `with db()` block is one atomic step: SQLite shows other     *)
(* connections nothing of a transaction before its commit.                 *)
(***************************************************************************)
EXTENDS Integers, Sequences, FiniteSets, TLC

VARIABLES store, uuids, turns, procs, pc, chat_id, loc, history

vars == <<store, uuids, turns, procs, pc, chat_id, loc, history>>

\* ---------------------------------------------------------------- bounds
\* chat_turn invocations explored per process
MaxTurns == 1
\* uuid4() draws explored in one run
MaxChats == 2
\* tool calls the model puts in one response
MaxToolCalls == 2

\* ---------------------------------------------------------------- config
CONTEXT_MESSAGES == 24

\* the system prompt (its wording is irrelevant to the protocol)
SYSTEM == <<"S">>

\* SQL NULL in a TEXT column / Python None for an id
NULL == "NULL"

\* Python None where a text is expected (no text contains this element)
None == <<"None">>

Procs == {"p1", "p2"}
\* the process of the in-memory program (chatbot.py)
MemProc == "m1"
AllProcs == Procs \cup {MemProc}

\* ---------------------------------------------------------------- texts
IsSpace(c) == c = " "

RECURSIVE lstrip(_)
lstrip(s) == IF s # <<>> /\ IsSpace(Head(s)) THEN lstrip(Tail(s)) ELSE s

RECURSIVE rstrip(_)
rstrip(s) ==
    IF s # <<>> /\ IsSpace(s[Len(s)]) THEN rstrip(SubSeq(s, 1, Len(s) - 1)) ELSE s

\* str.strip()
strip(s) == rstrip(lstrip(s))

\* s[:n]
Prefix(s, n) == SubSeq(s, 1, IF Len(s) < n THEN Len(s) ELSE n)

\* seq[-n:] for n > 0
LastN(s, n) == IF Len(s) <= n THEN s ELSE SubSeq(s, Len(s) - n + 1, Len(s))

\* ---------------------------------------------------------------- tables
EmptyStore == [chats |-> <<>>, messages |-> <<>>, seq_chats |-> 0, seq_messages |-> 0]

ChatExists(st, id) == \E i \in 1..Len(st.chats) : st.chats[i].id = id

\* INSERT INTO chats: pk from the AUTOINCREMENT sequence
InsertChat(st, id, title) ==
    [st EXCEPT !.chats = Append(@, [pk |-> st.seq_chats + 1, id |-> id, title |-> title]),
               !.seq_chats = @ + 1]

\* the mutant: foreign_keys left off, the chat is not looked up
MessageRowOk_no_fk(st, chat, role, content) ==
    /\ role \in {"system", "user", "assistant", "tool"}
    /\ content # None

\* the messages table's constraints: FOREIGN KEY(chat_id) with foreign_keys=ON,
\* CHECK(role IN ...), content NOT NULL
MessageRowOk(st, chat, role, content) ==
    /\ ChatExists(st, chat)
    /\ role \in {"system", "user", "assistant", "tool"}
    /\ content # None

\* the mutant: id INTEGER PRIMARY KEY without AUTOINCREMENT, one more than
\* the largest id in the table
InsertMessage_rowid(st, chat, role, content, tool_call_id) ==
    LET top == IF st.messages = <<>> THEN 0 ELSE st.messages[Len(st.messages)].id
    IN [st EXCEPT !.messages = Append(@, [id |-> top + 1, chat_id |-> chat,
                                          role |-> role, content |-> content,
                                          tool_call_id |-> tool_call_id]),
                  !.seq_messages = top + 1]

\* INSERT INTO messages: id from the AUTOINCREMENT sequence (never reused)
InsertMessage(st, chat, role, content, tool_call_id) ==
    [st EXCEPT !.messages = Append(@, [id |-> st.seq_messages + 1, chat_id |-> chat,
                                       role |-> role, content |-> content,
                                       tool_call_id |-> tool_call_id]),
               !.seq_messages = @ + 1]

\* the mutant: commit in the finally branch, so a failed body's writes land
db_commit_always(before, written, raised) == written

\* with db() as c: ... -- commit only when the body did not raise; close()
\* without commit discards the open transaction
db(before, written, raised) == IF raised THEN before ELSE written

\* failAt: 0 = no failure, 1 = the first INSERT raises, 2 = the second raises
create_chat(st, id, failAt) ==
    LET s1 == InsertChat(st, id, None)
        s2 == InsertMessage(s1, id, "system", SYSTEM, NULL)
        written == IF failAt = 1 THEN st ELSE IF failAt = 2 THEN s1 ELSE s2
    IN db(st, written, failAt # 0)

\* add_message: the row lands unless a constraint rejects it
add_message_raises(st, chat, role, content) == ~MessageRowOk(st, chat, role, content)

\* the mutant: the INSERT executed twice in the transaction
add_message_twice(st, chat, role, content, tool_call_id) ==
    db(st,
       InsertMessage(InsertMessage(st, chat, role, content, tool_call_id),
                     chat, role, content, tool_call_id),
       add_message_raises(st, chat, role, content))

add_message(st, chat, role, content, tool_call_id) ==
    db(st, InsertMessage(st, chat, role, content, tool_call_id),
       add_message_raises(st, chat, role, content))

\* the mutant: foreign_keys left off, so the chat's messages stay behind
delete_chat_no_cascade(st, id) ==
    [st EXCEPT !.chats = SelectSeq(@, LAMBDA c : c.id # id)]

\* DELETE FROM chats WHERE id = ?; ON DELETE CASCADE removes the chat's messages
delete_chat(st, id) ==
    db(st,
       [st EXCEPT !.chats = SelectSeq(@, LAMBDA c : c.id # id),
                  !.messages = SelectSeq(@, LAMBDA m : m.chat_id # id)],
       FALSE)

\* the mutant: the UPDATE without the look at the stored title
set_chat_title_always(st, id, title) ==
    LET t == Prefix(strip(IF title = None THEN <<>> ELSE title), 80)
    IN IF t = <<>> THEN st
       ELSE [st EXCEPT !.chats = [i \in 1..Len(@) |->
                IF @[i].id = id THEN [@[i] EXCEPT !.title = t] ELSE @[i]]]

\* title = (title or "").strip()[:80]; UPDATE only when the stored title is
\* NULL or blank
set_chat_title_if_empty(st, id, title) ==
    LET t == Prefix(strip(IF title = None THEN <<>> ELSE title), 80)
        blank(x) == x = None \/ strip(x) = <<>>
    IN IF t = <<>> THEN st
       ELSE db(st,
               [st EXCEPT !.chats = [i \in 1..Len(@) |->
                    IF @[i].id = id /\ blank(@[i].title)
                    THEN [@[i] EXCEPT !.title = t] ELSE @[i]]],
               FALSE)

\* rows of one chat, ORDER BY id ASC (the table is kept in id order)
ChatMessages(st, id) == SelectSeq(st.messages, LAMBDA m : m.chat_id = id)

NonSystem(st, id) == SelectSeq(ChatMessages(st, id), LAMBDA m : m.role # "system")

\* a message as submitted to the model
Msg(role, content, tool_call_id, tool_calls) ==
    [role |-> role, content |-> content, tool_call_id |-> tool_call_id,
     tool_calls |-> tool_calls]

\* the dict built for one row: only role=tool carries tool_call_id
RowMsg(r) ==
    IF r.role = "tool" THEN Msg("tool", r.content, r.tool_call_id, <<>>)
    ELSE Msg(r.role, r.content, NULL, <<>>)

\* the mutant: ORDER BY id ASC LIMIT ?, the oldest rows instead of the newest
get_context_messages_oldest(st, id) ==
    LET sys == SelectSeq(ChatMessages(st, id), LAMBDA m : m.role = "system")
        rows == Prefix(NonSystem(st, id), CONTEXT_MESSAGES)
    IN (IF sys # <<>> THEN <<Msg("system", sys[1].content, NULL, <<>>)>> ELSE <<>>)
       \o [i \in 1..Len(rows) |-> RowMsg(rows[i])]

\* the first system row (if any), then the last CONTEXT_MESSAGES non-system
\* rows in ascending id order
get_context_messages(st, id) ==
    LET sys == SelectSeq(ChatMessages(st, id), LAMBDA m : m.role = "system")
        rows == LastN(NonSystem(st, id), CONTEXT_MESSAGES)
    IN (IF sys # <<>> THEN <<Msg("system", sys[1].content, NULL, <<>>)>> ELSE <<>>)
       \o [i \in 1..Len(rows) |-> RowMsg(rows[i])]

\* user/assistant rows, ascending, LIMIT limit
fetch_full_history(st, id, limit) ==
    LET rows == SelectSeq(ChatMessages(st, id), LAMBDA m : m.role \in {"user", "assistant"})
    IN [i \in 1..(IF Len(rows) < limit THEN Len(rows) ELSE limit) |->
            [role |-> rows[i].role, content |-> rows[i].content]]

\* COALESCE(title,'(untitled)'), ORDER BY pk DESC, LIMIT limit
list_chats(st, limit) ==
    LET n == Len(st.chats)
        k == IF n < limit THEN n ELSE limit
    IN [i \in 1..k |-> [id |-> st.chats[n + 1 - i].id,
                        title |-> IF st.chats[n + 1 - i].title = None
                                  THEN <<"(", "u", ")">> ELSE st.chats[n + 1 - i].title]]

\* ---------------------------------------------------------------- environment
\* uuid4(): the n-th draw; draws never repeat
UUID(n) == <<"u1", "u2", "u3", "u4", "u5", "u6">>[n]

\* the id the endpoint gives the k-th tool call it emits during turn t; ids
\* never repeat
CallId(t, k) ==
    << <<"call_1_1", "call_1_2", "call_1_3", "call_1_4", "call_1_5">>,
       <<"call_2_1", "call_2_2", "call_2_3", "call_2_4", "call_2_5">>,
       <<"call_3_1", "call_3_2", "call_3_3", "call_3_4", "call_3_5">>,
       <<"call_4_1", "call_4_2", "call_4_3", "call_4_4", "call_4_5">> >>[t][k]

\* what the user types at "You: " after .strip(), other than commands
Inputs == {<<"q">>}

\* message.content of a response
Contents == {None, <<>>, <<" ", "a", " ">>}

\* function.arguments of a tool call, as the JSON text the endpoint sends
ArgTexts == {"{\"query\": \"x\"}", "{}", "{oops"}

\* json.loads: the parsed object's keys, or a raise on text that is not JSON
json_loads(a) ==
    CASE a = "{\"query\": \"x\"}" -> [raises |-> FALSE, keys |-> {"query"}]
      [] a = "{}" -> [raises |-> FALSE, keys |-> {}]
      [] OTHER -> [raises |-> TRUE, keys |-> {}]

ToolNames == {"web_search", "lookup"}

\* the (name, arguments) pairs explored; arguments of a tool the loop skips
\* are never read
CallShapes ==
    {[name |-> "web_search", arguments |-> a] : a \in ArgTexts}
       \cup {[name |-> "lookup", arguments |-> "{}"]}

\* json.dumps(results) of a search
PAYLOAD == <<"[", "]">>

\* the ids of the tool_calls of a response in turn t: 1..MaxToolCalls calls
\* with fresh ids.  The name and arguments the endpoint gave a call are drawn
\* when the loop reads them.
ToolCallLists(t) == {[k \in 1..n |-> CallId(t, k)] : n \in 1..MaxToolCalls}

\* ---------------------------------------------------------------- seeds
\* Database files left by earlier runs of the program.
SeedChat == "u0"

\* n earlier turns without tools, as chat_turn persists them: the rows
\* add_message(user), add_message(assistant) append, n times over
PlainTurns(st, id, n) ==
    [st EXCEPT !.messages = @ \o [k \in 1..(2 * n) |->
                 [id |-> st.seq_messages + k, chat_id |-> id,
                  role |-> IF k % 2 = 1 THEN "user" ELSE "assistant",
                  content |-> IF k % 2 = 1 THEN <<"q">> ELSE <<"a">>,
                  tool_call_id |-> NULL]],
               !.seq_messages = @ + 2 * n]

\* one earlier turn with a tool round, as chat_turn persists it
SeedToolTurn(st, id) ==
    add_message(add_message(add_message(st, id, "user", <<"q">>, NULL),
                            id, "tool", PAYLOAD, "call_0"),
                id, "assistant", <<"a">>, NULL)

SeedTitled(st, id) == set_chat_title_if_empty(st, id, <<"q">>)

\* a chat whose first turn had a tool round, followed by n plain turns
Seed(n) ==
    PlainTurns(SeedToolTurn(SeedTitled(create_chat(EmptyStore, SeedChat, 0), SeedChat),
                            SeedChat), SeedChat, n)

\* the database file of a first run: init_db() creates empty tables
Seeds == {EmptyStore}

\* database files left by earlier runs: a chat of 25 and one of 225 rows
\* besides its system row
LongSeeds == {Seed(11), Seed(111)}

\* ---------------------------------------------------------------- processes
LocInit ==
    [user_input |-> <<>>, messages |-> <<>>, tool_calls |-> <<>>, i |-> 1,
     reply |-> <<>>,
     \* history of the turn, read by the properties only
     turn_no |-> 0, ncalls |-> 0, requested |-> <<>>, second_calls |-> <<>>,
     executed |-> <<>>, appended |-> <<>>, failed_at |-> "none"]

InitWith(P, S) ==
    /\ store \in S
    /\ uuids = 0
    /\ turns = [s \in AllProcs |-> 0]
    /\ procs = P
    /\ pc = [s \in AllProcs |-> IF s \in P THEN "start" ELSE "off"]
    /\ chat_id = [s \in AllProcs |-> NULL]
    /\ loc = [s \in AllProcs |-> LocInit]
    /\ history = <<>>

\* the caller of create_chat(): on success the new id becomes the current
\* chat; a raise is caught nowhere and ends the process
Created(s, failAt) ==
    /\ pc' = [pc EXCEPT ![s] = IF failAt = 0 THEN "idle" ELSE "dead"]
    /\ chat_id' = [chat_id EXCEPT ![s] = IF failAt = 0 THEN UUID(uuids + 1) ELSE @]
    /\ loc' = [loc EXCEPT ![s].failed_at =
                  IF failAt = 0 THEN @ ELSE IF failAt = 1 THEN "insert_chat"
                                                          ELSE "insert_system"]
    /\ uuids' = uuids + 1

\* main(): init_db(), then create_chat() before the first prompt
MainStart(s) ==
    /\ pc[s] = "start"
    /\ uuids < MaxChats
    /\ \E failAt \in 0..2 :
          /\ store' = create_chat(store, UUID(uuids + 1), failAt)
          /\ Created(s, failAt)
    /\ UNCHANGED <<turns, procs, history>>

\* where two processes run, the commands of a process that has used up its
\* turns are not explored
Horizon(s) == Cardinality(procs) > 1 => turns[s] < MaxTurns

\* /new and /reset (handle_command runs outside main's try)
CmdNew(s) ==
    /\ pc[s] = "idle"
    /\ Horizon(s)
    /\ uuids < MaxChats
    /\ \E failAt \in 0..2 :
          /\ store' = create_chat(store, UUID(uuids + 1), failAt)
          /\ Created(s, failAt)
    /\ UNCHANGED <<turns, procs, history>>

\* the ids a user can type: any id ever issued, the id of any chat in the
\* file, or one that never existed
TypedIds ==
    {UUID(n) : n \in 1..uuids} \cup {store.chats[i].id : i \in 1..Len(store.chats)}
       \cup {"nope"}

\* /load <chat_id>: the id is taken as typed, unchecked
CmdLoad(s, arg) ==
    /\ pc[s] = "idle"
    /\ Horizon(s)
    /\ chat_id' = [chat_id EXCEPT ![s] = arg]
    /\ UNCHANGED <<store, uuids, turns, procs, pc, loc, history>>

\* /delete <chat_id>: delete, and when it was the current chat, create_chat()
CmdDelete(s, arg) ==
    /\ pc[s] = "idle"
    /\ Horizon(s)
    /\ IF arg = chat_id[s]
       THEN /\ uuids < MaxChats
            /\ \E failAt \in 0..2 :
                  /\ store' = create_chat(delete_chat(store, arg), UUID(uuids + 1), failAt)
                  /\ Created(s, failAt)
       ELSE /\ store' = delete_chat(store, arg)
            /\ UNCHANGED <<pc, chat_id, uuids, loc>>
    /\ UNCHANGED <<turns, procs, history>>

\* /history: fetch_full_history(current_chat_id, limit=200), printed; a read
CmdHistory(s) ==
    /\ pc[s] = "idle"
    /\ fetch_full_history(store, chat_id[s], 200) \in Seq([role : {"user", "assistant"},
                                                            content : Seq({" ", "a", "q"})])
    /\ UNCHANGED vars

\* /chats: list_chats(limit=20), printed; a read
CmdChats(s) ==
    /\ pc[s] = "idle"
    /\ Len(list_chats(store, 20)) <= 20
    /\ UNCHANGED vars

\* ---------------------------------------------------------------- chat_turn
\* rows of `after` that `before` did not hold (what one step wrote)
Written(before, after) ==
    SelectSeq(after.messages, LAMBDA m : m.id > before.seq_messages)

\* the number of process s's k-th turn among all turns of the run
TurnNo(s, k) == (IF s = "p1" THEN 0 ELSE MaxTurns) + k

\* what is left of a turn once chat_turn is left: its history
Left(l, at) ==
    [LocInit EXCEPT !.turn_no = l.turn_no, !.ncalls = l.ncalls,
                    !.requested = l.requested, !.second_calls = l.second_calls,
                    !.executed = l.executed,
                    !.appended = l.appended, !.failed_at = at]

\* an exception leaves chat_turn: main's except prints it
Raise(s, l, at) ==
    /\ pc' = [pc EXCEPT ![s] = "failed"]
    /\ loc' = [loc EXCEPT ![s] = Left(l, at)]

\* "You: <text>": chat_turn starts with add_message(chat_id, "user", user_input)
TurnStart(s, user_input) ==
    /\ pc[s] = "idle"
    /\ turns[s] < MaxTurns
    /\ turns' = [turns EXCEPT ![s] = @ + 1]
    /\ store' = add_message(store, chat_id[s], "user", user_input, NULL)
    /\ LET l == [LocInit EXCEPT !.user_input = user_input,
                                !.turn_no = TurnNo(s, turns'[s]),
                                !.appended = Written(store, store')]
       IN IF add_message_raises(store, chat_id[s], "user", user_input)
          THEN Raise(s, l, "user")
          ELSE /\ pc' = [pc EXCEPT ![s] = "title"]
               /\ loc' = [loc EXCEPT ![s] = l]
    /\ UNCHANGED <<uuids, procs, chat_id, history>>

\* set_chat_title_if_empty(chat_id, user_input)
TurnTitle(s) ==
    /\ pc[s] = "title"
    /\ store' = set_chat_title_if_empty(store, chat_id[s], loc[s].user_input)
    /\ pc' = [pc EXCEPT ![s] = "context"]
    /\ UNCHANGED <<uuids, turns, procs, chat_id, loc, history>>

\* messages = get_context_messages(chat_id)
TurnContext(s) ==
    /\ pc[s] = "context"
    /\ loc' = [loc EXCEPT ![s].messages = get_context_messages(store, chat_id[s])]
    /\ pc' = [pc EXCEPT ![s] = "call1"]
    /\ UNCHANGED <<store, uuids, turns, procs, chat_id, history>>

\* the responses the endpoint can give to the first call of turn t
FirstResponses(t) ==
    {[content |-> c, tool_calls |-> <<>>] : c \in Contents}
       \cup {[content |-> None, tool_calls |-> tc] : tc \in ToolCallLists(t)}

\* First call (tools offered).  The call raises, or answers; `if not
\* msg.tool_calls` takes the reply branch, else msg joins the in-memory context
ModelCall1(s) ==
    /\ pc[s] = "call1"
    /\ \/ Raise(s, loc[s], "call1")
       \/ \E msg \in FirstResponses(loc[s].turn_no) :
             IF msg.tool_calls = <<>>
             THEN /\ loc' = [loc EXCEPT ![s].ncalls = @ + 1,
                                        ![s].reply = strip(IF msg.content = None
                                                           THEN <<>> ELSE msg.content)]
                  /\ pc' = [pc EXCEPT ![s] = "reply1"]
             ELSE /\ loc' = [loc EXCEPT ![s].ncalls = @ + 1,
                                        ![s].tool_calls = msg.tool_calls,
                                        ![s].requested = msg.tool_calls,
                                        ![s].i = 1,
                                        ![s].messages = Append(@,
                                            Msg("assistant", msg.content, NULL,
                                                msg.tool_calls))]
                  /\ pc' = [pc EXCEPT ![s] = "tools"]
    /\ UNCHANGED <<store, uuids, turns, procs, chat_id, history>>

\* add_message(chat_id, "assistant", reply); return reply
TurnReply(s, from) ==
    /\ pc[s] = from
    /\ store' = add_message(store, chat_id[s], "assistant", loc[s].reply, NULL)
    /\ IF add_message_raises(store, chat_id[s], "assistant", loc[s].reply)
       THEN Raise(s, loc[s], from)
       ELSE /\ pc' = [pc EXCEPT ![s] = "done"]
            /\ loc' = [loc EXCEPT ![s] =
                          Left([loc[s] EXCEPT !.appended = @ \o Written(store, store')],
                               "none")]
    /\ UNCHANGED <<uuids, turns, procs, chat_id, history>>

TurnReply1(s) == TurnReply(s, "reply1")

\* the mutant: the tool output reaches the in-memory context only
tool_store_skipped(st, chat, id, tool_payload) == st

\* store tool output in DB for persistence
tool_store(st, chat, id, tool_payload) == add_message(st, chat, "tool", tool_payload, id)

\* the mutant: every requested call runs, whatever its name
is_web_search_any(name) == TRUE

\* if tool_call.function.name == "web_search"
is_web_search(name) == name = "web_search"

\* One pass of `for tool_call in msg.tool_calls`, on a call whose name and
\* arguments are `shape`: a call of another name is skipped; json.loads or
\* args["query"] may raise; web_search returns or raises (`searched`);
\* otherwise the payload is stored, then appended to the in-memory context
ToolStep(s, shape, searched) ==
    /\ pc[s] = "tools"
    /\ loc[s].i <= Len(loc[s].tool_calls)
    /\ LET id == loc[s].tool_calls[loc[s].i]
           args == json_loads(shape.arguments)
           ran == [loc[s] EXCEPT !.executed = Append(@, id)]
       IN IF ~is_web_search(shape.name)
          THEN /\ searched
               /\ loc' = [loc EXCEPT ![s].i = @ + 1]
               /\ UNCHANGED <<store, pc>>
          ELSE IF args.raises \/ "query" \notin args.keys
          THEN /\ searched
               /\ Raise(s, loc[s], "args")
               /\ UNCHANGED store
          ELSE IF ~searched
          THEN /\ Raise(s, ran, "search")
               /\ UNCHANGED store
          ELSE /\ store' = tool_store(store, chat_id[s], id, PAYLOAD)
               /\ IF add_message_raises(store, chat_id[s], "tool", PAYLOAD)
                  THEN Raise(s, ran, "store")
                  ELSE /\ loc' = [loc EXCEPT ![s] =
                                 [ran EXCEPT !.appended = @ \o Written(store, store'),
                                             !.messages = Append(@,
                                                 Msg("tool", PAYLOAD, id, <<>>)),
                                             !.i = @ + 1]]
                       /\ UNCHANGED pc
    /\ UNCHANGED <<uuids, turns, procs, chat_id, history>>

\* the loop is exhausted: the second call is next
ToolsDone(s) ==
    /\ pc[s] = "tools"
    /\ loc[s].i > Len(loc[s].tool_calls)
    /\ pc' = [pc EXCEPT ![s] = "call2"]
    /\ UNCHANGED <<store, uuids, turns, procs, chat_id, loc, history>>

\* the responses the endpoint can give to the second call of turn t, whose
\* first response held n calls (no tools are offered, yet nothing in the code
\* relies on the response carrying none)
SecondResponses(t, n) ==
    {[content |-> c, tool_calls |-> <<>>] : c \in Contents}
       \cup {[content |-> <<"a">>, tool_calls |-> <<CallId(t, n + 1)>>]}

\* the mutant: a second response with tool calls starts another round
after_second_loops(final) == IF final.tool_calls # <<>> THEN "tools" ELSE "reply2"

\* where chat_turn goes after the second response: its tool_calls are not read
after_second(final) == "reply2"

\* Second call: reply = final.choices[0].message.content.strip(), which raises
\* AttributeError on a None content
ModelCall2(s) ==
    /\ pc[s] = "call2"
    /\ \/ Raise(s, loc[s], "call2")
       \/ \E final \in SecondResponses(loc[s].turn_no, Len(loc[s].tool_calls)) :
             LET l == [loc[s] EXCEPT !.ncalls = @ + 1,
                                     !.second_calls = final.tool_calls]
             IN IF after_second(final) = "reply2"
                THEN IF final.content = None
                     THEN Raise(s, l, "strip")
                     ELSE /\ pc' = [pc EXCEPT ![s] = "reply2"]
                          /\ loc' = [loc EXCEPT ![s] =
                                        [l EXCEPT !.reply = strip(final.content)]]
                ELSE /\ pc' = [pc EXCEPT ![s] = after_second(final)]
                     /\ loc' = [loc EXCEPT ![s] =
                                   [l EXCEPT !.tool_calls = final.tool_calls, !.i = 1]]
    /\ UNCHANGED <<store, uuids, turns, procs, chat_id, history>>

TurnReply2(s) == TurnReply(s, "reply2")

\* the mutant: chat_turn called outside a try, so its exception ends main
MainPrint_uncaught(s) ==
    /\ pc[s] \in {"done", "failed"}
    /\ pc' = [pc EXCEPT ![s] = IF pc[s] = "done" THEN "idle" ELSE "dead"]
    /\ loc' = [loc EXCEPT ![s] = LocInit]
    /\ UNCHANGED <<store, uuids, turns, procs, chat_id, history>>

\* main prints the reply, or "Chatbot error: ...", and prompts again
MainPrint(s) ==
    /\ pc[s] \in {"done", "failed"}
    /\ pc' = [pc EXCEPT ![s] = "idle"]
    /\ loc' = [loc EXCEPT ![s] = LocInit]
    /\ UNCHANGED <<store, uuids, turns, procs, chat_id, history>>

\* ---------------------------------------------------------------- chatbot.py
\* 12 turns = 24 messages (user+assistant)
MAX_TURNS_TO_KEEP == 12

\* keep system + last MAX_TURNS_TO_KEEP turns
trim_history(h) ==
    IF Len(h) <= 1 THEN h
    ELSE IF Len(h) > 1 + (MAX_TURNS_TO_KEEP * 2)
         THEN <<h[1]>> \o LastN(h, (1 + (MAX_TURNS_TO_KEEP * 2)) - 1)
         ELSE h

\* memory starts with system message
MemFresh == <<Msg("system", SYSTEM, NULL, <<>>)>>

\* the memory after n turns answered without a tool
MemSeed(n) ==
    MemFresh \o [k \in 1..(2 * n) |->
                    IF k % 2 = 1 THEN Msg("user", <<"q">>, NULL, <<>>)
                                 ELSE Msg("assistant", <<"a">>, NULL, <<>>)]

MemSeeds == {MemFresh, MemSeed(MAX_TURNS_TO_KEEP)}

\* the in-memory program at its prompt
InitMem ==
    /\ store = EmptyStore
    /\ uuids = 0
    /\ turns = [s \in AllProcs |-> 0]
    /\ procs = {}
    /\ pc = [s \in AllProcs |-> IF s = MemProc THEN "idle" ELSE "off"]
    /\ chat_id = [s \in AllProcs |-> NULL]
    /\ loc = [s \in AllProcs |-> LocInit]
    /\ history \in MemSeeds

\* /reset: history = [system]
MemReset ==
    /\ pc[MemProc] = "idle"
    /\ history' = MemFresh
    /\ UNCHANGED <<store, uuids, turns, procs, pc, chat_id, loc>>

\* chat_with_tools starts: the user message joins the memory, which is trimmed
MemTurnStart(user_input) ==
    /\ pc[MemProc] = "idle"
    /\ turns[MemProc] < MaxTurns
    /\ turns' = [turns EXCEPT ![MemProc] = @ + 1]
    /\ history' = trim_history(Append(history, Msg("user", user_input, NULL, <<>>)))
    /\ loc' = [loc EXCEPT ![MemProc] =
                  [LocInit EXCEPT !.user_input = user_input,
                                  !.turn_no = TurnNo(MemProc, turns'[MemProc])]]
    /\ pc' = [pc EXCEPT ![MemProc] = "call1"]
    /\ UNCHANGED <<store, uuids, procs, chat_id>>

\* First call on the memory.  Without tool calls the stripped text joins the
\* memory, trimmed, and is returned; else msg is appended as it came
MemModelCall1 ==
    /\ pc[MemProc] = "call1"
    /\ \/ /\ Raise(MemProc, loc[MemProc], "call1")
          /\ UNCHANGED history
       \/ \E msg \in FirstResponses(loc[MemProc].turn_no) :
             IF msg.tool_calls = <<>>
             THEN LET assistant_text == strip(IF msg.content = None
                                              THEN <<>> ELSE msg.content)
                  IN /\ history' = trim_history(Append(history,
                                       Msg("assistant", assistant_text, NULL, <<>>)))
                     /\ loc' = [loc EXCEPT ![MemProc] =
                                   Left([loc[MemProc] EXCEPT !.ncalls = @ + 1], "none")]
                     /\ pc' = [pc EXCEPT ![MemProc] = "done"]
             ELSE /\ history' = Append(history,
                                    Msg("assistant", msg.content, NULL, msg.tool_calls))
                  /\ loc' = [loc EXCEPT ![MemProc].ncalls = @ + 1,
                                        ![MemProc].tool_calls = msg.tool_calls,
                                        ![MemProc].requested = msg.tool_calls,
                                        ![MemProc].i = 1]
                  /\ pc' = [pc EXCEPT ![MemProc] = "tools"]
    /\ UNCHANGED <<store, uuids, turns, procs, chat_id>>

\* One pass of `for tool_call in msg.tool_calls` of chat_with_tools
MemToolStep(shape, searched) ==
    /\ pc[MemProc] = "tools"
    /\ loc[MemProc].i <= Len(loc[MemProc].tool_calls)
    /\ LET id == loc[MemProc].tool_calls[loc[MemProc].i]
           args == json_loads(shape.arguments)
           ran == [loc[MemProc] EXCEPT !.executed = Append(@, id)]
       IN IF ~is_web_search(shape.name)
          THEN /\ searched
               /\ loc' = [loc EXCEPT ![MemProc].i = @ + 1]
               /\ UNCHANGED <<history, pc>>
          ELSE IF args.raises \/ "query" \notin args.keys
          THEN /\ searched
               /\ Raise(MemProc, loc[MemProc], "args")
               /\ UNCHANGED history
          ELSE IF ~searched
          THEN /\ Raise(MemProc, ran, "search")
               /\ UNCHANGED history
          ELSE /\ history' = Append(history, Msg("tool", PAYLOAD, id, <<>>))
               /\ loc' = [loc EXCEPT ![MemProc] = [ran EXCEPT !.i = @ + 1]]
               /\ UNCHANGED pc
    /\ UNCHANGED <<store, uuids, turns, procs, chat_id>>

\* the loop is exhausted: the second call is next
MemToolsDone ==
    /\ pc[MemProc] = "tools"
    /\ loc[MemProc].i > Len(loc[MemProc].tool_calls)
    /\ pc' = [pc EXCEPT ![MemProc] = "call2"]
    /\ UNCHANGED <<store, uuids, turns, procs, chat_id, loc, history>>

\* Second call on the memory: final...content.strip() raises on None; else
\* the text joins the memory, trimmed, and is returned
MemModelCall2 ==
    /\ pc[MemProc] = "call2"
    /\ \/ /\ Raise(MemProc, loc[MemProc], "call2")
          /\ UNCHANGED history
       \/ \E final \in SecondResponses(loc[MemProc].turn_no, Len(loc[MemProc].tool_calls)) :
             LET l == [loc[MemProc] EXCEPT !.ncalls = @ + 1,
                                           !.second_calls = final.tool_calls]
             IN IF after_second(final) = "reply2"
                THEN IF final.content = None
                     THEN /\ Raise(MemProc, l, "strip")
                          /\ UNCHANGED history
                     ELSE /\ history' = trim_history(Append(history,
                                 Msg("assistant", strip(final.content), NULL, <<>>)))
                          /\ pc' = [pc EXCEPT ![MemProc] = "done"]
                          /\ loc' = [loc EXCEPT ![MemProc] = Left(l, "none")]
                ELSE /\ pc' = [pc EXCEPT ![MemProc] = after_second(final)]
                     /\ loc' = [loc EXCEPT ![MemProc] =
                                   [l EXCEPT !.tool_calls = final.tool_calls, !.i = 1]]
                     /\ UNCHANGED history
    /\ UNCHANGED <<store, uuids, turns, procs, chat_id>>

\* main of chatbot.py prints the reply, or "Chatbot error: ...", and prompts again
MemPrint ==
    /\ pc[MemProc] \in {"done", "failed"}
    /\ pc' = [pc EXCEPT ![MemProc] = "idle"]
    /\ loc' = [loc EXCEPT ![MemProc] = LocInit]
    /\ UNCHANGED <<store, uuids, turns, procs, chat_id, history>>

\* ---------------------------------------------------------------- specifications
Next ==
    \/ \E s \in procs : MainStart(s)
    \/ \E s \in procs : CmdNew(s)
    \/ \E s \in procs : \E arg \in TypedIds : CmdLoad(s, arg)
    \/ \E s \in procs : \E arg \in TypedIds : CmdDelete(s, arg)
    \/ \E s \in procs : CmdHistory(s)
    \/ \E s \in procs : CmdChats(s)
    \/ \E s \in procs : \E user_input \in Inputs : TurnStart(s, user_input)
    \/ \E s \in procs : TurnTitle(s)
    \/ \E s \in procs : TurnContext(s)
    \/ \E s \in procs : ModelCall1(s)
    \/ \E s \in procs : TurnReply1(s)
    \/ \E s \in procs : \E shape \in CallShapes, searched \in BOOLEAN :
          ToolStep(s, shape, searched)
    \/ \E s \in procs : ToolsDone(s)
    \/ \E s \in procs : ModelCall2(s)
    \/ \E s \in procs : TurnReply2(s)
    \/ \E s \in procs : MainPrint(s)
    \/ MemReset
    \/ \E user_input \in Inputs : MemTurnStart(user_input)
    \/ MemModelCall1
    \/ \E shape \in CallShapes, searched \in BOOLEAN : MemToolStep(shape, searched)
    \/ MemToolsDone
    \/ MemModelCall2
    \/ MemPrint

\* either program at its start: one CLI process on the database file, or the
\* in-memory program
Init == InitWith({"p1"}, Seeds) \/ InitMem

Spec == Init /\ [][Next]_vars

\* one CLI process on a database file that holds a long chat; the commands
\* that create and delete chats are left out
NextLong ==
    \/ \E s \in procs : MainStart(s)
    \/ \E s \in procs : \E arg \in TypedIds : CmdLoad(s, arg)
    \/ \E s \in procs : CmdHistory(s)
    \/ \E s \in procs : \E user_input \in Inputs : TurnStart(s, user_input)
    \/ \E s \in procs : TurnTitle(s)
    \/ \E s \in procs : TurnContext(s)
    \/ \E s \in procs : ModelCall1(s)
    \/ \E s \in procs : TurnReply1(s)
    \/ \E s \in procs : \E shape \in CallShapes, searched \in BOOLEAN :
          ToolStep(s, shape, searched)
    \/ \E s \in procs : ToolsDone(s)
    \/ \E s \in procs : ModelCall2(s)
    \/ \E s \in procs : TurnReply2(s)
    \/ \E s \in procs : MainPrint(s)

InitLong == InitWith({"p1"}, LongSeeds)

SpecLong == InitLong /\ [][NextLong]_vars

\* one CLI process on a database file left by a run that made one turn, with
\* one web_search call, on its chat
InitResume == InitWith({"p1"}, {Seed(0)})

SpecResume == InitResume /\ [][NextLong]_vars

\* the memory after one more turn answered without a tool, as
\* chat_with_tools leaves it
MemPlainTurn(h) ==
    trim_history(Append(trim_history(Append(h, Msg("user", <<"q">>, NULL, <<>>))),
                        Msg("assistant", <<"a">>, NULL, <<>>)))

\* the memory after one more turn with two web_search calls
MemToolTurn(h) ==
    trim_history(Append(
        trim_history(Append(h, Msg("user", <<"q">>, NULL, <<>>)))
           \o <<Msg("assistant", None, NULL, <<"call_0a", "call_0b">>),
                Msg("tool", PAYLOAD, "call_0a", <<>>),
                Msg("tool", PAYLOAD, "call_0b", <<>>)>>,
        Msg("assistant", <<"a">>, NULL, <<>>)))

RECURSIVE MemPlainTurns(_, _)
MemPlainTurns(h, n) == IF n = 0 THEN h ELSE MemPlainTurns(MemPlainTurn(h), n - 1)

\* memories of a long session: after 12 plain turns, and after a tool turn
\* followed by 10 plain turns
MemLongSeeds == {MemPlainTurns(MemFresh, MAX_TURNS_TO_KEEP),
                 MemPlainTurns(MemToolTurn(MemFresh), 10)}

InitMemLong ==
    /\ store = EmptyStore
    /\ uuids = 0
    /\ turns = [s \in AllProcs |-> 0]
    /\ procs = {}
    /\ pc = [s \in AllProcs |-> IF s = MemProc THEN "idle" ELSE "off"]
    /\ chat_id = [s \in AllProcs |-> NULL]
    /\ loc = [s \in AllProcs |-> LocInit]
    /\ history \in MemLongSeeds

\* the in-memory program alone
NextMem ==
    \/ MemReset
    \/ \E user_input \in Inputs : MemTurnStart(user_input)
    \/ MemModelCall1
    \/ \E shape \in CallShapes, searched \in BOOLEAN : MemToolStep(shape, searched)
    \/ MemToolsDone
    \/ MemModelCall2
    \/ MemPrint

SpecMem == InitMemLong /\ [][NextMem]_vars

\* lines a user can type, as main passes them on (stripped): an empty line,
\* two short texts, a text of 81 characters
TitleInputs == {<<>>, <<"q">>, <<"r">>, [i \in 1..81 |-> "x"]}

\* database files: none yet, or one left by a run whose chat got its title
TitleSeeds == {EmptyStore, SeedTitled(create_chat(EmptyStore, SeedChat, 0), SeedChat)}

\* one CLI process whose user types lines of TitleInputs; /delete, /chats and
\* /history are left out, and a turn whose first response requests tools is
\* followed no further
NextTitle ==
    \/ \E s \in procs : MainStart(s)
    \/ \E s \in procs : CmdNew(s)
    \/ \E s \in procs : \E arg \in TypedIds : CmdLoad(s, arg)
    \/ \E s \in procs : \E user_input \in TitleInputs : TurnStart(s, user_input)
    \/ \E s \in procs : TurnTitle(s)
    \/ \E s \in procs : TurnContext(s)
    \/ \E s \in procs : ModelCall1(s)
    \/ \E s \in procs : TurnReply1(s)
    \/ \E s \in procs : MainPrint(s)

InitTitle == InitWith({"p1"}, TitleSeeds)

SpecTitle == InitTitle /\ [][NextTitle]_vars

\* two CLI processes on the same database file
InitConc == InitWith(Procs, {EmptyStore})

NextConc ==
    \/ \E s \in procs : MainStart(s)
    \/ \E s \in procs : CmdNew(s)
    \/ \E s \in procs : \E arg \in TypedIds : CmdLoad(s, arg)
    \/ \E s \in procs : \E arg \in TypedIds : CmdDelete(s, arg)
    \/ \E s \in procs : CmdHistory(s)
    \/ \E s \in procs : CmdChats(s)
    \/ \E s \in procs : \E user_input \in Inputs : TurnStart(s, user_input)
    \/ \E s \in procs : TurnTitle(s)
    \/ \E s \in procs : TurnContext(s)
    \/ \E s \in procs : ModelCall1(s)
    \/ \E s \in procs : TurnReply1(s)
    \/ \E s \in procs : \E shape \in CallShapes, searched \in BOOLEAN :
          ToolStep(s, shape, searched)
    \/ \E s \in procs : ToolsDone(s)
    \/ \E s \in procs : ModelCall2(s)
    \/ \E s \in procs : TurnReply2(s)
    \/ \E s \in procs : MainPrint(s)

SpecConc == InitConc /\ [][NextConc]_vars

\* ---------------------------------------------------------------- properties
Range(q) == {q[i] : i \in 1..Len(q)}

\* a process between the first statement of chat_turn and its return or raise
InTurn(s) == pc[s] \in {"title", "context", "call1", "reply1", "tools", "call2", "reply2"}

\* the rows a turn appended are the newest rows of its chat, in order
AppendedLast(st, id, a) ==
    LET rows == ChatMessages(st, id)
    IN Len(a) <= Len(rows) /\ SubSeq(rows, Len(rows) - Len(a) + 1, Len(rows)) = a

\* C1: every role=tool row is preceded, in the same chat, by an assistant row
\* whose tool-call id equals the tool row's id (rows the run found in the
\* file aside).
C1_ToolRowHasRequest ==
    \A j \in 1..Len(store.messages) :
       (store.messages[j].role = "tool" /\ store.messages[j].chat_id # SeedChat) =>
          \E i \in 1..(j - 1) :
             /\ store.messages[i].chat_id = store.messages[j].chat_id
             /\ store.messages[i].role = "assistant"
             /\ store.messages[i].tool_call_id = store.messages[j].tool_call_id

\* C2: a completed turn whose first response requested n calls appended
\* user, assistant carrying the requested id(s), one tool row per requested
\* call in emitted order, final assistant.
C2_ToolTurnLog ==
    \A s \in procs :
       (pc[s] = "done" /\ loc[s].requested # <<>>) =>
          LET a == loc[s].appended
              n == Len(loc[s].requested)
          IN /\ Len(a) = n + 3
             /\ a[1].role = "user"
             /\ a[2].role = "assistant"
             /\ a[2].tool_call_id \in Range(loc[s].requested)
             /\ \A k \in 1..n : /\ a[2 + k].role = "tool"
                                /\ a[2 + k].tool_call_id = loc[s].requested[k]
             /\ a[n + 3].role = "assistant"

\* C3: a tool call that cannot be executed (unknown name, unparsable
\* arguments, failure inside the tool) never aborts the turn, and by the
\* second call every requested call has its role=tool row.
C3_ToolErrorsAbsorbed ==
    \A s \in procs :
       /\ loc[s].failed_at \notin {"args", "search"}
       /\ pc[s] \in {"call2", "reply2", "done"} =>
             \A k \in 1..Len(loc[s].requested) :
                \E r \in Range(loc[s].appended) :
                   r.role = "tool" /\ r.tool_call_id = loc[s].requested[k]

\* C4: every sequence submitted to the model, by the first call or the
\* second, has at most 1 + CONTEXT_MESSAGES messages.
C4_WindowBound ==
    \A s \in procs :
       pc[s] \in {"call1", "call2"} => Len(loc[s].messages) <= 1 + CONTEXT_MESSAGES

\* the first call's sequence is the chat's one system row, then the newest
\* min(CONTEXT_MESSAGES, k) of its k non-system rows, oldest first
WindowIsNewest(s) ==
    LET sys == SelectSeq(ChatMessages(store, chat_id[s]), LAMBDA m : m.role = "system")
        ns == NonSystem(store, chat_id[s])
        k == Len(ns)
        n == IF k < CONTEXT_MESSAGES THEN k ELSE CONTEXT_MESSAGES
        w == loc[s].messages
    IN /\ Len(sys) = 1
       /\ Len(w) = 1 + n
       /\ w[1].role = "system" /\ w[1].content = sys[1].content
       /\ \A j \in 1..n :
             /\ w[1 + j].role = ns[k - n + j].role
             /\ w[1 + j].content = ns[k - n + j].content
             /\ w[1 + j].tool_call_id =
                   (IF ns[k - n + j].role = "tool" THEN ns[k - n + j].tool_call_id ELSE NULL)

\* the non-system rows of the chat that the window of the first call left out
Evicted(s) ==
    LET ns == NonSystem(store, chat_id[s])
    IN IF Len(ns) <= CONTEXT_MESSAGES THEN <<>>
       ELSE SubSeq(ns, 1, Len(ns) - CONTEXT_MESSAGES)

\* the position of row r among the user/assistant rows of its chat
Rank(r) ==
    Cardinality({i \in 1..Len(store.messages) :
                    /\ store.messages[i].chat_id = r.chat_id
                    /\ store.messages[i].role \in {"user", "assistant"}
                    /\ store.messages[i].id <= r.id})

\* C5 as claimed: the first call's window is system + newest rows, and every
\* row it leaves out is still a row and still returned by /history's query.
C5_FirstWindow ==
    \A s \in procs :
       pc[s] = "call1" =>
          /\ WindowIsNewest(s)
          /\ \A r \in Range(Evicted(s)) :
                /\ r \in Range(store.messages)
                /\ [role |-> r.role, content |-> r.content]
                      \in Range(fetch_full_history(store, chat_id[s], 200))

\* C5 as amended: ... every row left out is still a row, and those of role
\* user or assistant among the chat's first 200 such rows are returned, at
\* their position, by /history's query (which returns no tool row and stops
\* after 200).
C5_FirstWindowAmended ==
    \A s \in procs :
       pc[s] = "call1" =>
          /\ WindowIsNewest(s)
          /\ LET hist == fetch_full_history(store, chat_id[s], 200)
             IN /\ Len(hist) <= 200
                /\ \A r \in Range(Evicted(s)) :
                      /\ r \in Range(store.messages)
                      /\ (r.role \in {"user", "assistant"} /\ Rank(r) <= 200) =>
                            hist[Rank(r)] = [role |-> r.role, content |-> r.content]
                      /\ r.role = "tool" =>
                            \A h \in Range(hist) : h.role # "tool"

C5_Witness ==
    \E s \in procs :
       /\ pc[s] = "call1"
       /\ \E r \in Range(Evicted(s)) : r.role = "tool"
       /\ \E r \in Range(Evicted(s)) : r.role = "user" /\ Rank(r) > 200

\* C6: every chat has exactly one system row and it is the chat's first row.
C6_OneSystemFirst ==
    \A c \in Range(store.chats) :
       LET rows == ChatMessages(store, c.id)
       IN /\ rows # <<>>
          /\ rows[1].role = "system"
          /\ \A j \in 2..Len(rows) : rows[j].role # "system"

C6_Witness ==
    \E s \in procs :
       /\ pc[s] = "dead"
       /\ loc[s].failed_at = "insert_system"
       /\ \E c \in Range(store.chats) : Len(ChatMessages(store, c.id)) > 1

\* C7: a turn calls the model at most twice, runs each call the first
\* response requested at most once and nothing else, and after the second
\* response only persists the reply.
C7_OneToolRound ==
    \A s \in procs \cup {MemProc} :
       /\ loc[s].ncalls <= 2
       /\ \A i, j \in 1..Len(loc[s].executed) :
             i # j => loc[s].executed[i] # loc[s].executed[j]
       /\ Range(loc[s].executed) \subseteq Range(loc[s].requested)
       /\ Range(loc[s].executed) \cap Range(loc[s].second_calls) = {}
       /\ loc[s].ncalls = 2 => pc[s] \in {"reply2", "done", "failed"}

C7_Witness ==
    \E s \in procs :
       /\ pc[s] = "done"
       /\ loc[s].ncalls = 2
       /\ loc[s].second_calls # <<>>
       /\ Len(loc[s].executed) >= 2

\* C8: while the first call is being prepared or made the user row is in
\* the table, and when the second call is made every tool result of the turn
\* is a role=tool row of the chat.
C8_PersistedBeforeCalls ==
    \A s \in procs :
       /\ pc[s] \in {"title", "context", "call1"} =>
             \E r \in Range(store.messages) :
                /\ r.chat_id = chat_id[s]
                /\ r.role = "user"
                /\ <<r>> = loc[s].appended
       /\ pc[s] = "call2" =>
             /\ \A id \in Range(loc[s].executed) :
                   \E r \in Range(store.messages) :
                      r.chat_id = chat_id[s] /\ r.role = "tool" /\ r.tool_call_id = id
             /\ \A m \in Range(loc[s].messages) :
                   (m.role = "tool" /\ m.tool_call_id \in Range(loc[s].requested)) =>
                      \E r \in Range(store.messages) :
                         /\ r.chat_id = chat_id[s]
                         /\ r.role = "tool"
                         /\ r.tool_call_id = m.tool_call_id
                         /\ r.content = m.content

C8_Witness ==
    \E s \in procs : pc[s] = "call2" /\ Len(loc[s].executed) >= 2

\* one step of process s, as C9 constrains it
C9_Step(s) ==
    /\ (/\ pc[s] \in {"call1", "call2"}
        /\ pc'[s] = "failed"
        /\ loc'[s].failed_at \in {"call1", "call2"}) =>
          /\ store' = store
          /\ loc'[s].appended = loc[s].appended
          /\ loc[s].appended # <<>>
          /\ loc[s].appended[1].role = "user"
          /\ \A r \in Range(loc[s].appended) : r.role \in {"user", "tool"}
          /\ AppendedLast(store', chat_id[s], loc[s].appended)
    /\ (pc[s] = "failed" /\ loc[s].failed_at \in {"call1", "call2"} /\ pc'[s] # pc[s]) =>
          /\ pc'[s] = "idle"
          /\ store' = store
          /\ chat_id'[s] = chat_id[s]
          /\ ~add_message_raises(store', chat_id'[s], "user", <<"q">>)

\* C9: a failing model call (first or second) aborts the turn and changes no
\* row: the user row and the tool rows of the turn stay the newest rows of
\* the chat, no assistant row is written, and main returns to the prompt
\* with the chat usable by the next turn.
C9_ModelFailureKeepsLog == [][\A s \in procs : C9_Step(s)]_vars

C9_Witness ==
    \E s \in procs :
       /\ pc[s] = "failed"
       /\ loc[s].failed_at = "call2"
       /\ Len(loc[s].appended) >= 2

\* C10: no two processes are inside chat_turn on the same chat at once.
C10_TurnsSerialized ==
    \A s, t \in procs :
       (s # t /\ chat_id[s] = chat_id[t]) => ~(InTurn(s) /\ InTurn(t))


\* C11: every message row belongs to an existing chat; delete_chat(id) on the
\* current tables leaves no row of that chat and touches no other chat, and
\* on an id that is not there changes nothing (and raises nothing).
C11_NoOrphans ==
    /\ \A m \in Range(store.messages) : ChatExists(store, m.chat_id)
    /\ \A id \in TypedIds :
          LET d == delete_chat(store, id)
          IN /\ ChatMessages(d, id) = <<>>
             /\ ~ChatExists(d, id)
             /\ \A other \in TypedIds \ {id} :
                   ChatMessages(d, other) = ChatMessages(store, other)
             /\ ~ChatExists(store, id) => d = store

\* /delete has removed a chat that held the rows of a turn, another chat is left
C11_Witness ==
    /\ store.seq_messages >= Len(store.messages) + 3
    /\ store.chats # <<>>
    /\ \E s \in procs : pc[s] = "idle"


\* C12: at the prompt and during a turn, the current chat_id of a running
\* process is the id of a chat in the table.
C12_ActiveChatExists ==
    \A s \in procs :
       pc[s] \notin {"start", "off", "dead"} => ChatExists(store, chat_id[s])


\* the stored title of chat id (None when NULL or when there is no such chat)
TitleOf(st, id) ==
    IF ChatExists(st, id)
    THEN (CHOOSE c \in Range(st.chats) : c.id = id).title
    ELSE None

IsBlank(t) == t = None \/ strip(t) = <<>>

\* candidates set_chat_title_if_empty can be called with: the typed lines, a
\* missing one and one of spaces only
Candidates == TitleInputs \cup {None, <<" ", " ">>, <<" ", "r", " ">>}

\* the title two calls in a row must leave, by the claim: the stored one when
\* non-blank, else the first candidate that is non-blank once stripped, cut
\* to 80 characters
FirstNonBlank(old, a, b) ==
    IF ~IsBlank(old) THEN old
    ELSE IF ~IsBlank(a) THEN Prefix(strip(a), 80)
    ELSE IF ~IsBlank(b) THEN Prefix(strip(b), 80)
    ELSE old

\* two calls in a row on tables st change chat id's title, and nothing else,
\* as the claim says
TwoCallsOk(st, id, a, b) ==
    LET once == set_chat_title_if_empty(st, id, a)
        twice == set_chat_title_if_empty(once, id, b)
    IN /\ ChatExists(st, id) =>
             TitleOf(twice, id) = FirstNonBlank(TitleOf(st, id), a, b)
       /\ ~ChatExists(st, id) => twice = st
       /\ \A other \in Range(st.chats) :
             other.id # id => TitleOf(twice, other.id) = other.title
       /\ twice.messages = st.messages
       /\ IsBlank(a) => once = st
       /\ ~IsBlank(TitleOf(twice, id)) => Len(TitleOf(twice, id)) <= 80

\* one step, as C13 constrains it: when a turn starts, two calls in a row on
\* the tables as they then are; and what the step itself did to the titles
C13_Step ==
    /\ \A s \in procs :
          (pc[s] = "idle" /\ pc'[s] = "title") =>
             \A id \in {chat_id[s], "nope"} : \A a, b \in Candidates :
                TwoCallsOk(store', id, a, b)
    /\ \A c \in Range(store.chats) :
          /\ ~IsBlank(c.title) => Len(c.title) <= 80
          /\ (~IsBlank(c.title) /\ ChatExists(store', c.id)) =>
                TitleOf(store', c.id) = c.title
    /\ \A s \in procs :
          (pc[s] = "title" /\ pc'[s] = "context") =>
             /\ IsBlank(loc[s].user_input) => store' = store
             /\ TitleOf(store', chat_id[s]) =
                   FirstNonBlank(TitleOf(store, chat_id[s]), loc[s].user_input, None)

\* C13: of any calls of set_chat_title_if_empty on a chat, those of
\* successive turns included, only the first whose candidate is non-blank
\* after stripping changes the title; a blank candidate changes nothing; a
\* stored title has at most 80 characters.
C13_FirstTitleWins == [][C13_Step]_vars

\* a chat whose title is the 81-character line cut to 80, and a chat that
\* kept its title through a turn with another line
C13_Witness ==
    \/ \E c \in Range(store.chats) : ~IsBlank(c.title) /\ Len(c.title) = 80
    \/ \E s \in procs :
          /\ pc[s] = "context"
          /\ loc[s].user_input = <<"r">>
          /\ TitleOf(store, chat_id[s]) = <<"q">>


\* one step, as C14 constrains it
C14_Step ==
    /\ store'.seq_messages >= store.seq_messages
    \* rows are kept in the order of their ids, none above the counter
    /\ \A i \in 1..Len(store'.messages) :
          /\ store'.messages[i].id <= store'.seq_messages
          /\ i > 1 => store'.messages[i - 1].id < store'.messages[i].id
    \* a row with an id assigned before the step is a row of before, unchanged
    /\ \A r \in Range(store'.messages) :
          r.id <= store.seq_messages => r \in Range(store.messages)
    \* a row is gone only with its chat
    /\ \A r \in Range(store.messages) :
          r \in Range(store'.messages) \/ ~ChatExists(store', r.chat_id)
    \* a step of a turn writes to the chat of the turn only
    /\ \A s \in procs :
          ((pc[s] = "idle" /\ pc'[s] \in {"title", "failed"}) \/ (InTurn(s) /\ pc'[s] # pc[s])
              \/ (InTurn(s) /\ loc'[s] # loc[s])) =>
             /\ \A r \in Range(store'.messages) :
                   r.id > store.seq_messages => r.chat_id = chat_id[s]
             /\ Range(store.messages) \subseteq Range(store'.messages)

\* C14: no step edits or reorders a stored message; only /delete removes
\* rows, and only those of the deleted chat; a turn appends to its own chat
\* only; every new row gets an id above every id assigned before, also after
\* a delete.
C14_AppendOnly == [][C14_Step]_vars

\* a turn has appended its user row after a /delete removed rows
C14_Witness ==
    /\ store.seq_messages > Len(store.messages)
    /\ \E r \in Range(store.messages) : r.role = "user" /\ r.id = store.seq_messages


\* one step, as C15 constrains it
C15_Step ==
    \* add_message on the tables as they are, for an id that is not a chat
    /\ \A id \in TypedIds : \A role \in {"user", "assistant", "tool"} :
          ~ChatExists(store, id) =>
             /\ add_message_raises(store, id, role, <<"q">>)
             /\ add_message(store, id, role, <<"q">>, NULL) = store
    \* a line typed while the current chat_id is not a chat
    /\ \A s \in procs :
          (pc[s] = "idle" /\ pc'[s] \in {"title", "failed"}
              /\ ~ChatExists(store, chat_id[s])) =>
             /\ pc'[s] = "failed"
             /\ loc'[s].failed_at = "user"
             /\ loc'[s].ncalls = 0
             /\ loc'[s].appended = <<>>
             /\ store' = store

\* C15: add_message for an id that is not a chat (never created, or deleted)
\* raises and writes nothing; a turn started on such an id is left before
\* any model call, with the tables as they were.
C15_NoChatNoAppend == [][C15_Step]_vars

\* a turn failed at its first add_message, on the id of a chat deleted earlier
C15_Witness ==
    \E s \in procs :
       /\ pc[s] = "failed"
       /\ loc[s].failed_at = "user"
       /\ chat_id[s] = UUID(1)


\* C16: add_message with role tool and no tool_call_id raises and writes
\* nothing, on the tables of any reachable state; and no tool row without a
\* tool_call_id is in the table.
C16_ToolRowNeedsId ==
    /\ \A r \in Range(store.messages) : r.role = "tool" => r.tool_call_id # NULL
    /\ \A c \in Range(store.chats) :
          /\ add_message_raises(store, c.id, "tool", PAYLOAD)
          /\ add_message(store, c.id, "tool", PAYLOAD, NULL) = store


\* C17: a turn that returned and whose first response requested no tool made
\* one model call and appended two rows, user then assistant, as the newest
\* rows of its chat; on a chat that held its system row only, the chat is now
\* system, user, assistant.
C17_PlainTurn ==
    \A s \in procs :
       (pc[s] = "done" /\ loc[s].requested = <<>>) =>
          LET a == loc[s].appended
              rows == ChatMessages(store, chat_id[s])
          IN /\ loc[s].ncalls = 1
             /\ loc[s].executed = <<>>
             /\ Len(a) = 2
             /\ a[1].role = "user" /\ a[2].role = "assistant"
             /\ a[2].id = a[1].id + 1
             /\ a[2].tool_call_id = NULL
             /\ AppendedLast(store, chat_id[s], a)
             /\ Len(rows) = 3 => rows[1].role = "system"

C17_Witness ==
    \E s \in procs :
       /\ pc[s] = "done"
       /\ loc[s].requested = <<>>
       /\ Len(ChatMessages(store, chat_id[s])) = 3
       /\ ChatMessages(store, chat_id[s])[3].content = <<"a">>


\* C18: no turn, of either program, is left with an error because a
\* response came without content.
C18_MissingContentIsEmpty ==
    \A s \in procs \cup {MemProc} : loc[s].failed_at # "strip"


\* every role=tool message of q comes after an assistant message of q whose
\* tool_calls hold its tool_call_id
ToolConsistent(q) ==
    \A j \in 1..Len(q) :
       q[j].role = "tool" =>
          \E i \in 1..(j - 1) :
             q[i].role = "assistant" /\ q[j].tool_call_id \in Range(q[i].tool_calls)

\* C19: whenever a model call is about to be made, by either program, the
\* sequence it submits is consistent with respect to tool calls.
C19_SubmittedToolConsistent ==
    /\ \A s \in procs :
          pc[s] \in {"call1", "call2"} => ToolConsistent(loc[s].messages)
    /\ pc[MemProc] \in {"call1", "call2"} => ToolConsistent(history)


\* C20: while chat_with_tools is not running, history[0] is the system
\* message, no other message is one, and history holds at most
\* 1 + 2*MAX_TURNS_TO_KEEP messages.
C20_HistoryAtRest ==
    pc[MemProc] \in {"idle", "done", "failed"} =>
       /\ history # <<>>
       /\ history[1].role = "system"
       /\ \A j \in 2..Len(history) : history[j].role # "system"
       /\ Len(history) <= 1 + 2 * MAX_TURNS_TO_KEEP

====
